---- MODULE Spec2Model ----
(***************************************************************************)
(* The WebSocket relay of src/visualization/index.js.                      *)
(*                                                                         *)
(* The program keeps two module-level slots, visSocket and prismSocket,    *)
(* and registers one 'connection' callback on the server.  The callback    *)
(* classifies the new socket by the state of visSocket and registers a     *)
(* 'message' listener on whatever prismSocket holds afterwards.  The       *)
(* listener stringifies the message and sends it to visSocket.             *)
(*                                                                         *)
(* Node runs callbacks one at a time, so every callback is one action.     *)
(***************************************************************************)
EXTENDS Integers, Sequences, FiniteSets

\* Bounds of the exploration.
MaxConns == 3
MaxMsgs == 2

\* `null` of lines 4-5; sockets are named by positive numbers.
null == 0
Sockets == 1..MaxConns

(***************************************************************************)
(* Payloads.  The transport hands the listener either a JavaScript string  *)
(* (a sequence of code points) or a Buffer (a sequence of bytes).          *)
(***************************************************************************)
Str(s) == [kind |-> "string", val |-> s]
Buf(b) == [kind |-> "buffer", val |-> b]

\* "h" and "w" stand for the texts hello and world; 195,169 is the UTF-8
\* encoding of U+00E9; a lone 195 is a truncated sequence.
Payloads ==
    { Str(<<104>>), Str(<<119>>), Buf(<<104>>), Buf(<<195, 169>>), Buf(<<195>>) }

\* U+FFFD, which the decoder substitutes for bytes that are not UTF-8.
Replacement == 65533

\* Buffer.prototype.toString(): UTF-8 decoding with replacement, for the
\* one- and two-byte forms.
RECURSIVE Utf8Decode(_)
Utf8Decode(b) ==
    IF b = <<>> THEN <<>>
    ELSE IF b[1] < 128 THEN <<b[1]>> \o Utf8Decode(Tail(b))
    ELSE IF /\ b[1] >= 194 /\ b[1] <= 223
            /\ Len(b) >= 2 /\ b[2] >= 128 /\ b[2] <= 191
         THEN <<(b[1] - 192) * 64 + (b[2] - 128)>> \o Utf8Decode(Tail(Tail(b)))
    ELSE <<Replacement>> \o Utf8Decode(Tail(b))

\* The bytes a string occupies in a text frame (UTF-8, code points < 2^16).
RECURSIVE Utf8Encode(_)
Utf8Encode(s) ==
    IF s = <<>> THEN <<>>
    ELSE LET c == s[1] IN
         (IF c < 128 THEN <<c>>
          ELSE IF c < 2048 THEN <<192 + (c \div 64), 128 + (c % 64)>>
          ELSE <<224 + (c \div 4096), 128 + ((c \div 64) % 64), 128 + (c % 64)>>)
         \o Utf8Encode(Tail(s))

\* The template literal `${message}` of line 21.
ToString(m) == IF m.kind = "string" THEN m.val ELSE Utf8Decode(m.val)

\* The bytes of a payload as the peer put them on the wire.
PayloadBytes(m) == IF m.kind = "string" THEN Utf8Encode(m.val) ELSE m.val

VARIABLES
    visSocket,     \* line 4
    prismSocket,   \* line 5
    listeners,     \* socket -> number of 'message' listeners registered on it
    accepted,      \* the sockets handed to the 'connection' callback, in order
    open,          \* the sockets whose peer has not closed
    received,      \* the 'message' events emitted, in order
    sent,          \* the calls of send(), in order
    everPrism,     \* the sockets prismSocket has held
    staleAccepts,  \* the sockets accepted after the visualization peer closed
    raised,        \* a call of send() raised an error
    uncaught       \* an exception left the listener

vars == <<visSocket, prismSocket, listeners, accepted, open, received, sent,
          everPrism, staleAccepts, raised, uncaught>>

Init ==
    /\ visSocket = null
    /\ prismSocket = null
    /\ listeners = [s \in Sockets |-> 0]
    /\ accepted = <<>>
    /\ open = {}
    /\ received = <<>>
    /\ sent = <<>>
    /\ everPrism = {}
    /\ staleAccepts = {}
    /\ raised = FALSE
    /\ uncaught = FALSE

(***************************************************************************)
(* The 'connection' callback, lines 8-24.                                  *)
(***************************************************************************)

\* Lines 9-12: the slot is written only while it is null.
AssignVisAlways(vis, ws) == ws
AssignVis(vis, ws) == IF vis = null THEN ws ELSE vis

\* Lines 9 and 13-16: the else branch overwrites the slot unconditionally.
AssignPrismOnce(vis, prism, ws) ==
    IF vis = null THEN prism ELSE IF prism = null THEN ws ELSE prism
AssignPrismAlways(vis, prism, ws) == ws
AssignPrism(vis, prism, ws) == IF vis = null THEN prism ELSE ws

\* Lines 17-18: one more listener on the socket prismSocket now holds.
\* Nothing removes a listener.
AttachOnce(ls, prism) ==
    IF prism # null /\ \A s \in DOMAIN ls : ls[s] = 0
    THEN [ls EXCEPT ![prism] = @ + 1]
    ELSE ls
AttachExclusive(ls, prism) ==
    IF prism # null
    THEN [s \in DOMAIN ls |-> IF s = prism THEN ls[s] + 1 ELSE 0]
    ELSE ls
Attach(ls, prism) ==
    IF prism # null THEN [ls EXCEPT ![prism] = @ + 1] ELSE ls

\* The server creates one socket object per connection; they are named in
\* the order of creation.
NewSocket == Len(accepted) + 1

Connection ==
    /\ ~uncaught
    /\ Len(accepted) < MaxConns
    /\ LET ws == NewSocket
           vis == AssignVis(visSocket, ws)
           prism == AssignPrism(visSocket, prismSocket, ws)
       IN /\ visSocket' = vis
          /\ prismSocket' = prism
          /\ listeners' = Attach(listeners, prism)
          /\ everPrism' = IF prism # null THEN everPrism \cup {prism} ELSE everPrism
          /\ accepted' = Append(accepted, ws)
          /\ open' = open \cup {ws}
          /\ staleAccepts' = IF visSocket # null /\ visSocket \notin open
                              THEN staleAccepts \cup {ws}
                              ELSE staleAccepts
    /\ UNCHANGED <<received, sent, raised, uncaught>>

(***************************************************************************)
(* The 'message' listener, lines 18-22.                                    *)
(***************************************************************************)

\* Line 21: the receiver of send() is visSocket.
TargetPrism(vis, prism) == prism
Target(vis, prism) == vis

\* Line 21: a call of send() is one more entry, after the earlier ones.
SendFirst(log, call) == <<call>> \o log
Send(log, call) == Append(log, call)

\* Lines 19-22, run for message number rx, which socket `from` emitted.
\* The receiver's state is not looked at before the call.
ListenerIfOpen(vis, prism, from, rx, m, log) ==
    IF vis # null /\ vis \in open
    THEN Append(log, [to |-> vis, data |-> ToString(m), from |-> from, rx |-> rx])
    ELSE log
Listener(vis, prism, from, rx, m, log) ==
    IF vis # null
    THEN Send(log, [to |-> Target(vis, prism), data |-> ToString(m),
                    from |-> from, rx |-> rx])
    ELSE log

\* The emitter calls the n listeners of the socket in turn; an exception
\* leaving one of them ends the emit.
RECURSIVE Emit(_, _, _, _, _, _, _, _)
Emit(n, vis, prism, from, rx, m, log, throws) ==
    IF n = 0 THEN log
    ELSE LET log1 == Listener(vis, prism, from, rx, m, log)
         IN IF throws THEN log1
            ELSE Emit(n - 1, vis, prism, from, rx, m, log1, throws)

\* send() on a socket whose peer has closed either drops the data or
\* throws, depending on the transport library; line 21 has no try/catch.
MayThrow(c) ==
    /\ listeners[c] > 0
    /\ visSocket # null
    /\ Target(visSocket, prismSocket) \notin open

\* Lines 18-22 hold no try/catch: an error raised by send() leaves the
\* listener.
EscapesNever(throws) == FALSE
Escapes(throws) == throws

Message(c, m) ==
    /\ ~uncaught
    /\ c \in open
    /\ Len(received) < MaxMsgs
    /\ \E throws \in BOOLEAN :
          /\ throws => MayThrow(c)
          /\ received' = Append(received, [from |-> c, msg |-> m,
                                           vis |-> visSocket, prism |-> prismSocket])
          /\ sent' = Emit(listeners[c], visSocket, prismSocket, c,
                          Len(received) + 1, m, sent, throws)
          /\ raised' = throws
          /\ uncaught' = Escapes(throws)
    /\ UNCHANGED <<visSocket, prismSocket, listeners, accepted, open, everPrism,
                   staleAccepts>>

\* A peer closes its connection.  The program registers no 'close' or
\* 'error' listener, so none of its state changes.
CloseClears(c) ==
    /\ ~uncaught
    /\ c \in open
    /\ open' = open \ {c}
    /\ visSocket' = IF c = visSocket THEN null ELSE visSocket
    /\ prismSocket' = IF c = prismSocket THEN null ELSE prismSocket
    /\ UNCHANGED <<listeners, accepted, received, sent, everPrism, staleAccepts,
                   raised, uncaught>>
Close(c) ==
    /\ ~uncaught
    /\ c \in open
    /\ open' = open \ {c}
    /\ UNCHANGED <<visSocket, prismSocket, listeners, accepted, received, sent,
                   everPrism, staleAccepts, raised, uncaught>>

Next ==
    \/ Connection
    \/ \E c \in Sockets, m \in Payloads : Message(c, m)
    \/ \E c \in Sockets : Close(c)

Spec == Init /\ [][Next]_vars

TypeOK ==
    /\ visSocket \in Sockets \cup {null}
    /\ prismSocket \in Sockets \cup {null}
    /\ listeners \in [Sockets -> Nat]
    /\ open \subseteq Sockets
    /\ everPrism \subseteq Sockets
    /\ staleAccepts \subseteq Sockets
    /\ raised \in BOOLEAN
    /\ uncaught \in BOOLEAN
    /\ Len(received) <= MaxMsgs

(***************************************************************************)
(* Properties.                                                             *)
(***************************************************************************)

\* The calls of send() made while message number i was handled.
SendsFor(i) == {j \in DOMAIN sent : sent[j].rx = i}

\* C1, as stated: the first connection accepted holds the visualization
\* slot and the second holds the prism slot in every state after it has
\* connected, whatever messages were sent.
C1_SecondKeepsPrismSlot ==
    /\ Len(accepted) >= 1 => visSocket = accepted[1]
    /\ Len(accepted) >= 2 => prismSocket = accepted[2]

\* C1, amended: the first connection accepted holds the visualization slot
\* in every later state; the second takes the prism slot when it is
\* accepted and holds it until the next connection is accepted.
C1_FirstVisSecondPrism ==
    /\ Len(accepted) >= 1 => visSocket = accepted[1]
    /\ Len(accepted) >= 2 => accepted[2] \in everPrism
    /\ Len(accepted) = 2 => prismSocket = accepted[2]

\* Two connections accepted, with a message handled between the two.
C1_Witness ==
    /\ Len(accepted) = 2
    /\ prismSocket = accepted[2]
    /\ \E i \in DOMAIN received :
          received[i].vis # null /\ received[i].prism = null

\* C2: a message emitted by the socket in the prism slot while the
\* visualization slot is set causes exactly one call of send(), on the
\* visualization socket, however many connections were accepted before.
C2_ExactlyOneSend ==
    \A i \in DOMAIN received :
        (/\ received[i].prism # null
         /\ received[i].from = received[i].prism
         /\ received[i].vis # null)
        => /\ Cardinality(SendsFor(i)) = 1
           /\ \A j \in SendsFor(i) : sent[j].to = received[i].vis

\* The prism socket is the third connection and its message was sent on.
C2_Witness ==
    /\ Len(accepted) >= 3
    /\ \E i \in DOMAIN received :
          /\ received[i].prism = accepted[3]
          /\ received[i].from = received[i].prism
          /\ Cardinality(SendsFor(i)) = 1

\* C3: the calls of send() are made in the order in which the messages
\* were received, each carrying the text of its own message.
C3_OrderPreserved ==
    /\ \A j, k \in DOMAIN sent : j < k => sent[j].rx < sent[k].rx
    /\ \A j \in DOMAIN sent : sent[j].data = ToString(received[sent[j].rx].msg)

\* One prism socket sent "h" and then "w"; both were sent on.
C3_Witness ==
    /\ Len(received) = 2 /\ Len(sent) = 2
    /\ received[1].from = received[2].from
    /\ received[1].msg = Str(<<104>>) /\ received[2].msg = Str(<<119>>)
    /\ sent[1].data = <<104>> /\ sent[2].data = <<119>>

\* C4, as stated: once two connections have been accepted no step changes
\* either slot.
C4_SlotsFrozenAfterTwo ==
    [][Len(accepted) >= 2 =>
          (visSocket' = visSocket /\ prismSocket' = prismSocket)]_vars

\* C4, amended: once two connections have been accepted no step changes
\* the visualization slot, and the prism slot changes only when a further
\* connection is accepted, which then takes it.
C4_LaterConnectionTakesPrismOnly ==
    [][Len(accepted) >= 2 =>
          /\ visSocket' = visSocket
          /\ prismSocket' = IF accepted' # accepted
                            THEN accepted'[Len(accepted')]
                            ELSE prismSocket]_vars

\* A third connection has been accepted.
C4_Witness ==
    /\ Len(accepted) >= 3
    /\ visSocket = accepted[1]
    /\ prismSocket = accepted[3]

\* C6: the first connection accepted never has a message listener, and no
\* message it emits causes a call of send().
C6_NoListenerOnVisualization ==
    Len(accepted) >= 1 =>
        /\ listeners[accepted[1]] = 0
        /\ \A j \in DOMAIN sent : sent[j].from # accepted[1]
        /\ \A i \in DOMAIN received :
              received[i].from = accepted[1] => SendsFor(i) = {}

\* Only one client has connected, and it has sent a message.
C6_Witness ==
    /\ Len(accepted) = 1
    /\ \E i \in DOMAIN received : received[i].from = accepted[1]
    /\ sent = <<>>

\* C7: every call of send() is on the socket in the visualization slot,
\* which has never been in the prism slot.
C7_SoleReceiver ==
    \A j \in DOMAIN sent :
        /\ sent[j].to = visSocket
        /\ sent[j].to \notin everPrism

\* Two sockets have been in the prism slot and a message was sent on.
C7_Witness ==
    /\ Cardinality(everPrism) >= 2
    /\ \E j \in DOMAIN sent : sent[j].from \in everPrism

\* C8, as stated: what is passed to send() has the same bytes as the
\* message received, for strings and for byte sequences.
C8_PayloadUnchanged ==
    \A j \in DOMAIN sent :
        Utf8Encode(sent[j].data) = PayloadBytes(received[sent[j].rx].msg)

\* C9, as stated: a connection accepted after the first two has no
\* listener and nothing it emits causes a call of send().
C9_LaterConnectionsDropped ==
    \A k \in 3..Len(accepted) :
        /\ listeners[accepted[k]] = 0
        /\ \A j \in DOMAIN sent : sent[j].from # accepted[k]

\* C9, amended: a connection accepted after the first two has one
\* listener and every message it emits is sent to the visualization socket.
C9_LaterConnectionsForwarded ==
    \A k \in 3..Len(accepted) :
        /\ listeners[accepted[k]] = 1
        /\ \A i \in DOMAIN received :
              received[i].from = accepted[k]
              => \E j \in SendsFor(i) : sent[j].to = accepted[1]

\* The third connection has emitted a message.
C9_Witness ==
    /\ Len(accepted) >= 3
    /\ \E i \in DOMAIN received :
          received[i].from = accepted[3] /\ SendsFor(i) # {}

\* C10: every connection after the first takes the prism slot and gets a
\* listener of its own, which stays: a message emitted by a socket that has
\* since lost the prism slot still causes one call of send().
C10_SupersededStillForwards ==
    /\ \A k \in 2..Len(accepted) :
          accepted[k] \in everPrism /\ listeners[accepted[k]] = 1
    /\ Len(accepted) >= 2 => prismSocket = accepted[Len(accepted)]
    /\ \A i \in DOMAIN received :
          (received[i].from # received[i].prism /\ received[i].from # received[i].vis)
          => /\ Cardinality(SendsFor(i)) = 1
             /\ \A j \in SendsFor(i) :
                   sent[j].from = received[i].from /\ sent[j].to = received[i].vis

\* The newer prism socket sent a message, then the superseded one did, and
\* both were sent on.
C10_Witness ==
    /\ Len(accepted) >= 3 /\ Len(received) = 2
    /\ received[1].from = accepted[3]
    /\ received[2].from = accepted[2] /\ received[2].prism = accepted[3]
    /\ SendsFor(1) # {} /\ SendsFor(2) # {}

\* C11: once the visualization slot is set no step changes it, a closed
\* peer included, and every connection accepted from then on is put in the
\* prism slot, never in the visualization slot.
C11_VisualizationNeverReplaced ==
    [][visSocket # null =>
          /\ visSocket' = visSocket
          /\ accepted' # accepted =>
                /\ prismSocket' = accepted'[Len(accepted')]
                /\ visSocket' # accepted'[Len(accepted')]]_vars

\* The visualization peer has closed and a connection accepted after that
\* holds the prism slot, while the slot still names the closed socket.
C11_Witness ==
    /\ visSocket # null /\ visSocket \notin open
    /\ prismSocket \in staleAccepts
    /\ visSocket \notin staleAccepts

\* C12: every socket that has held the prism slot has exactly one message
\* listener, in every state, and no other socket has any.
C12_OneListenerPerPrism ==
    \A s \in Sockets : listeners[s] = IF s \in everPrism THEN 1 ELSE 0

\* A socket took the prism slot and a later connection was accepted.
C12_Witness ==
    /\ Len(accepted) >= 3
    /\ accepted[2] \in everPrism
    /\ prismSocket # accepted[2]
    /\ listeners[accepted[2]] = 1

\* C13: a message handled by a listener after the visualization peer has
\* closed still causes a call of send() on the stale socket, an error
\* raised by that call leaves the listener, and both slots are unchanged.
C13_StaleSendNotSkipped ==
    [][(/\ received' # received
        /\ visSocket # null /\ visSocket \notin open
        /\ listeners[received'[Len(received')].from] > 0)
       => /\ Len(sent') = Len(sent) + 1
          /\ sent'[Len(sent')].to = visSocket
          /\ sent'[Len(sent')].rx = Len(received')
          /\ raised' => uncaught'
          /\ visSocket' = visSocket
          /\ prismSocket' = prismSocket]_vars

\* A send() on the closed visualization socket raised, and the error left
\* the listener; the slots still name the same sockets.
C13_Witness ==
    /\ raised /\ uncaught
    /\ sent # <<>>
    /\ sent[Len(sent)].to = visSocket
    /\ visSocket \notin open
    /\ prismSocket = received[Len(received)].prism

\* C14: whenever the prism slot is set the visualization slot is set and
\* holds another socket, and no call of send() is on the socket whose
\* message it forwards.
C14_SlotsDistinct ==
    /\ prismSocket # null => (visSocket # null /\ visSocket # prismSocket)
    /\ \A j \in DOMAIN sent : sent[j].to # sent[j].from

\* Both slots are set and a message has been sent on.
C14_Witness ==
    /\ prismSocket # null
    /\ visSocket # null
    /\ sent # <<>>

\* C15: whenever a socket has a listener the visualization slot is set, so
\* every message handled from a connection other than the first was
\* handled with the slot set and caused a call of send().
C15_ListenerImpliesVisSet ==
    /\ (\E s \in Sockets : listeners[s] > 0) => visSocket # null
    /\ \A i \in DOMAIN received :
          (Len(accepted) >= 1 /\ received[i].from # accepted[1])
          => /\ received[i].vis # null
             /\ SendsFor(i) # {}

\* A connection other than the first emitted a message after the
\* visualization peer had closed, and send() was still called.
C15_Witness ==
    /\ Len(accepted) >= 2
    /\ visSocket \notin open
    /\ \E i \in DOMAIN received :
          /\ received[i].from # accepted[1]
          /\ \E j \in SendsFor(i) : sent[j].to = visSocket
    /\ ~raised

====
